---- MODULE Spec2Model ----
(***************************************************************************)
(* Model of gdb_util/instrument_srs.py: the breakpoint choreography that   *)
(* instruments std::sort, the GuiThread front end (show_swap, show_move,   *)
(* _send_message) that runs in the gdb thread, the Queue between the two   *)
(* threads and the GuiThread back end (_check_for_messages, _perform_swap) *)
(* that runs in the GUI thread.                                            *)
(*                                                                         *)
(* Environment.  The traced program is any program that calls swap, the    *)
(* move constructor, the move assignment operator and std::sort; swap is   *)
(* called on elements of the vector and its body performs only moves.  The *)
(* user may resume the program whenever gdb has stopped it.  Addresses are *)
(* byte addresses; gdb scales pointer arithmetic by sizeof(int_wrapper_t), *)
(* which is Stride here.  Rendering (QPropertyAnimation, the scene) is not *)
(* modelled; only the exceptions it can raise are.                         *)
(***************************************************************************)
EXTENDS Integers, Sequences, FiniteSets, TLC

\* ---------------------------------------------------------------- bounds
\* number of elements of the traced vector A
N == 1
\* number of elements of the vector of the replayed GuiThread
ModelN == 3
\* byte address of A[0]
Base == 1
\* sizeof(int_wrapper_t)
Stride == 2
\* records pushed to one GuiThread before the traced program is cut off
MaxPush == 2
\* ranges of the inputs of the classification probe
MaxProbeBase == 2
MaxProbeSize == 2
MaxProbeStride == 2
MaxProbeAddr == 17
\* gdb versions tried by the import: major up to MaxMajor, minor up to
\* MaxMinor, patch up to MaxPatch
MaxMajor == 9
MaxMinor == 3
MaxPatch == 1

VARIABLES
    enabled,        \* Breakpoint.enabled of swap_bp, move_bp, move_assign_bp, sort_bp
    phase,          \* traced program: "setup", "in_sort", "after_sort"
    in_swap,        \* traced program is inside a call of swap
    swap_moved,     \* the current swap call has executed a move
    fbp,            \* the FinishBreakpoint of the current swap call exists
    finish_bp,      \* the FinishBreakpoint of the current std::sort call exists
    stopped,        \* why gdb holds the program: "none", "finish_bp", or the
                    \* exception a "py" line raised
    gui_state,      \* module global gui: "none", "started", "polling", "aborted"
    base_addr,      \* gui.base_addr
    size,           \* gui.size
    values,         \* gui.values
    messages,       \* gui.messages, oldest first
    elements,       \* gui.elements (Python index i is position i+1)
    temp_elements,  \* gui.temp_elements: token -> <<pos, element>>
    gui_error,      \* exception raised by the last failing _check_for_messages
    pushed,         \* history: every record put on gui.messages
    applied,        \* history: every record taken from gui.messages
    probe,          \* classification probe: inputs and outcome of one show_move
    load            \* the import of this module: "unloaded", "loaded", or the
                    \* exception that ended it

vars == <<enabled, phase, in_swap, swap_moved, fbp, finish_bp, stopped,
          gui_state, base_addr, size, values, messages, elements, temp_elements,
          gui_error, pushed, applied, probe, load>>

\* ------------------------------------------------------------ data
\* Python None
None == <<>>

\* AnimProxy(Element(idx, v)) built in run()
Element(idx, v) == <<idx, v>>

\* QPointF(x, y)
QPointF(x, y) == <<x, y>>

Sites == {"swap", "move", "move_assign", "sort"}

\* addresses of the elements of A, and two locations outside A
ElemAddrs == {Base + i * Stride : i \in 0 .. N - 1}
TempAddrs == {Base - 1, Base + N * Stride}
Addrs == ElemAddrs \cup TempAddrs

\* the same for the vector of the replayed GuiThread
ModelElemAddrs == {Base + i * Stride : i \in 0 .. ModelN - 1}
ModelTempAddrs == {Base - 1, Base + ModelN * Stride}
ModelAddrs == ModelElemAddrs \cup ModelTempAddrs

\* the int stored in the traced program at address p when std::sort is entered
Deref(p) == 10 + p

HexDigit(d) == <<"0", "1", "2", "3", "4", "5", "6", "7", "8", "9",
                 "a", "b", "c", "d", "e", "f">>[d + 1]

RECURSIVE HexDigits(_)
HexDigits(n) == IF n < 16 THEN <<HexDigit(n)>>
                ELSE Append(HexDigits(n \div 16), HexDigit(n % 16))

\* str() of a gdb.Value pointer: "0x" and the address in hexadecimal
str(p) == <<"0", "x">> \o HexDigits(p)


\* ------------------------------------------------------------ front end
\* the bounds test of show_move: p >= base_addr and p < base_addr + size
in_vec_inclusive(p, base, sz, stride) == (p >= base) /\ (p <= base + sz * stride)

in_vec(p, base, sz, stride) == (p >= base) /\ (p < base + sz * stride)

\* pointer difference p - base_addr, in elements
idx(p, base, stride) == (p - base) \div stride

\* what show_move makes of one operand: an offset in the vector, or the
\* address in string form
Classify(p, base, sz, stride) ==
    IF in_vec(p, base, sz, stride)
    THEN <<"slot", idx(p, base, stride)>>
    ELSE <<"token", str(p)>>

\* show_swap(a, b): the message it sends
show_swap(a, b, base, stride) == <<"swap", idx(a, base, stride), idx(b, base, stride)>>

\* show_move mutants: the two fields of 'move' in the order (a, b); a message
\* instead of the RuntimeError
show_move_swapped(a, b, base, sz, stride) ==
    LET ca == Classify(a, base, sz, stride)
        cb == Classify(b, base, sz, stride)
    IN  IF ca[1] = "slot" /\ cb[1] = "slot"
        THEN [raise |-> "none", msg |-> <<"move", ca[2], cb[2]>>]
        ELSE IF ca[1] = "slot"
        THEN [raise |-> "none", msg |-> <<"move_from_temp", cb[2], ca[2]>>]
        ELSE IF cb[1] = "slot"
        THEN [raise |-> "none", msg |-> <<"move_to_temp", cb[2], ca[2]>>]
        ELSE [raise |-> "RuntimeError", msg |-> <<>>]

show_move_noraise(a, b, base, sz, stride) ==
    LET ca == Classify(a, base, sz, stride)
        cb == Classify(b, base, sz, stride)
    IN  IF ca[1] = "slot" /\ cb[1] = "slot"
        THEN [raise |-> "none", msg |-> <<"move", cb[2], ca[2]>>]
        ELSE IF ca[1] = "slot"
        THEN [raise |-> "none", msg |-> <<"move_from_temp", cb[2], ca[2]>>]
        ELSE IF cb[1] = "slot"
        THEN [raise |-> "none", msg |-> <<"move_to_temp", cb[2], ca[2]>>]
        ELSE [raise |-> "none", msg |-> <<"move_from_temp", cb[2], 0>>]

\* show_move(a, b): a is `this` (moved into), b is the address of `other`
\* (moved from).  The message it sends, or the exception it raises.
show_move(a, b, base, sz, stride) ==
    LET ca == Classify(a, base, sz, stride)
        cb == Classify(b, base, sz, stride)
    IN  IF ca[1] = "slot" /\ cb[1] = "slot"
        THEN [raise |-> "none", msg |-> <<"move", cb[2], ca[2]>>]
        ELSE IF ca[1] = "slot"
        THEN [raise |-> "none", msg |-> <<"move_from_temp", cb[2], ca[2]>>]
        ELSE IF cb[1] = "slot"
        THEN [raise |-> "none", msg |-> <<"move_to_temp", cb[2], ca[2]>>]
        ELSE [raise |-> "RuntimeError", msg |-> <<>>]

\* _send_message: Queue.put (MaxPush cuts the traced program off)
send_message(rec) ==
    /\ Len(pushed) < MaxPush
    /\ messages' = Append(messages, rec)
    /\ pushed' = Append(pushed, rec)

\* ------------------------------------------------------------ breakpoints
\* enabled flags set when the module is loaded
InitialSites_swap_on ==
    [s \in Sites |-> s \in {"sort", "swap"}]

InitialSites ==
    [s \in Sites |-> s = "sort"]

\* "enable swap_bp, move_bp, move_assign_bp" of sort_bp.commands
SortEnables(en) ==
    [en EXCEPT !["swap"] = TRUE, !["move"] = TRUE, !["move_assign"] = TRUE]

\* "disable move_bp, move_assign_bp" of swap_bp.commands
SwapDisables_one(en) ==
    [en EXCEPT !["move"] = FALSE]

SwapDisables(en) ==
    [en EXCEPT !["move"] = FALSE, !["move_assign"] = FALSE]

\* fbp.commands: "enable move_bp, move_assign_bp"
FinishEnables_one(en) ==
    [en EXCEPT !["move"] = TRUE]

FinishEnables(en) ==
    [en EXCEPT !["move"] = TRUE, !["move_assign"] = TRUE]

\* the traced program runs: gdb does not hold it, and the gdb process lives
Running == stopped = "none" /\ gui_state # "aborted"

\* a "py" line of a command list raises: gdb abandons the rest of the list,
\* the "c" included, and the program stays stopped at the breakpoint
PyError(exc) ==
    /\ stopped' = exc
    /\ UNCHANGED <<enabled, fbp, messages, pushed>>

\* swap_bp.commands, run when the enabled swap_bp is hit
swap_bp_commands(a, b) ==
    IF gui_state = "none"
    THEN PyError("AttributeError")
    ELSE /\ send_message(show_swap(a, b, base_addr, Stride))
         /\ enabled' = SwapDisables(enabled)
         /\ fbp' = TRUE
         /\ stopped' = stopped

\* move_commands, run when the enabled move_bp or move_assign_bp is hit
move_commands(this, other) ==
    IF gui_state = "none"
    THEN PyError("AttributeError")
    ELSE LET r == show_move(this, other, base_addr, size, Stride)
         IN  IF r.raise = "none"
             THEN /\ send_message(r.msg)
                  /\ UNCHANGED <<enabled, fbp, stopped>>
             ELSE PyError(r.raise)

\* GuiThread.__init__(base, sz): reads the vector; elements and temp_elements
\* are not set before run()
GuiThread_init(base, sz) ==
    /\ base_addr' = base
    /\ size' = sz
    /\ messages' = <<>>
    /\ values' = [i \in 1 .. sz |-> Deref(base + (i - 1) * Stride)]
    /\ elements' = <<>>
    /\ temp_elements' = <<>>
    /\ gui_error' = "none"

\* sort_bp.commands: FinishBreakpoint, GuiThread(...), gui.start(), enables.
\* The module global gui is rebound: the model follows the object it names,
\* and the histories with it.  A GuiThread that gui named before keeps
\* polling its own queue, which receives nothing any more.
sort_bp_commands ==
    /\ finish_bp' = TRUE
    /\ GuiThread_init(Base, N)
    /\ gui_state' = "started"
    /\ enabled' = SortEnables(enabled)
    /\ pushed' = <<>>
    /\ applied' = <<>>


\* ------------------------------------------------------------ traced program
\* the program calls swap(a, b) on two elements of the vector
CallSwap(a, b) ==
    /\ Running
    /\ ~in_swap
    /\ in_swap' = TRUE
    /\ swap_moved' = FALSE
    /\ IF enabled["swap"]
       THEN swap_bp_commands(a, b)
       ELSE UNCHANGED <<enabled, fbp, stopped, messages, pushed>>
    /\ UNCHANGED <<phase, finish_bp,  gui_state, base_addr, size, values,
                   elements, temp_elements, gui_error, applied, probe, load>>

\* the program calls the move constructor (site "move") or the move
\* assignment operator (site "move_assign") with this = d and other at s
CallMove(site, d, s) ==
    /\ Running
    /\ swap_moved' = in_swap
    /\ IF enabled[site]
       THEN move_commands(d, s)
       ELSE UNCHANGED <<enabled, fbp, stopped, messages, pushed>>
    /\ UNCHANGED <<phase, in_swap, finish_bp,  gui_state, base_addr, size,
                   values, elements, temp_elements, gui_error, applied, probe, load>>

\* swap returns; its FinishBreakpoint, when there is one, runs fbp.commands
ReturnSwap ==
    /\ Running
    /\ in_swap
    /\ in_swap' = FALSE
    /\ swap_moved' = FALSE
    /\ fbp' = FALSE
    /\ enabled' = IF fbp THEN FinishEnables(enabled) ELSE enabled
    /\ UNCHANGED <<phase, finish_bp, stopped,  gui_state, base_addr, size,
                   values, messages, elements, temp_elements, gui_error, pushed,
                   applied, probe, load>>

\* the program calls std::sort on the vector
CallSort ==
    /\ Running
    /\ ~in_swap
    /\ phase \in {"setup", "after_sort"}
    /\ phase' = "in_sort"
    /\ IF enabled["sort"]
       THEN sort_bp_commands
       ELSE UNCHANGED <<finish_bp, base_addr, size, values, messages, elements,
                        temp_elements, gui_error, gui_state,  enabled,
                        pushed, applied>>
    /\ UNCHANGED <<in_swap, swap_moved, fbp, stopped, probe, load>>

\* std::sort returns; finish_bp has no commands, so gdb stops the program
ReturnSort ==
    /\ Running
    /\ ~in_swap
    /\ phase = "in_sort"
    /\ phase' = "after_sort"
    /\ finish_bp' = FALSE
    /\ stopped' = IF finish_bp THEN "finish_bp" ELSE stopped
    /\ UNCHANGED <<enabled, in_swap, swap_moved, fbp,  gui_state, base_addr,
                   size, values, messages, elements, temp_elements, gui_error, pushed,
                   applied, probe, load>>

\* the user types "continue" at the gdb prompt
UserContinue ==
    /\ stopped # "none"
    /\ gui_state # "aborted"
    /\ stopped' = "none"
    /\ UNCHANGED <<enabled, phase, in_swap, swap_moved, fbp, finish_bp, 
                   gui_state, base_addr, size, values, messages, elements,
                   temp_elements, gui_error, pushed, applied, probe, load>>


\* ------------------------------------------------------------ back end
\* run(), up to the start of the poll timer: builds elements and temp_elements
run_new_queue ==
    /\ gui_state = "started"
    /\ elements' = [i \in 1 .. Len(values) |-> Element(i - 1, values[i])]
    /\ temp_elements' = <<>>
    /\ messages' = <<>>
    /\ gui_state' = "polling"
    /\ UNCHANGED <<enabled, phase, in_swap, swap_moved, fbp, finish_bp, stopped,
                    base_addr, size, values, gui_error, pushed,
                   applied, probe, load>>

run ==
    /\ gui_state = "started"
    /\ elements' = [i \in 1 .. Len(values) |-> Element(i - 1, values[i])]
    /\ temp_elements' = <<>>
    /\ gui_state' = "polling"
    /\ UNCHANGED <<enabled, phase, in_swap, swap_moved, fbp, finish_bp, stopped,
                    base_addr, size, values, messages, gui_error, pushed,
                   applied, probe, load>>

\* _perform_swap(a, b): elt_a.pos and elt_b.pos raise on None, before any
\* assignment
perform_swap_no_temp(a, b, els) ==
    LET elt_a == els[a + 1]
        elt_b == els[b + 1]
    IN  IF elt_a = None \/ elt_b = None
        THEN [elements |-> els, raise |-> "AttributeError"]
        ELSE [elements |-> [els EXCEPT ![a + 1] = elt_b], raise |-> "none"]

perform_swap(a, b, els) ==
    LET elt_a == els[a + 1]
        elt_b == els[b + 1]
    IN  IF elt_a = None \/ elt_b = None
        THEN [elements |-> els, raise |-> "AttributeError"]
        ELSE [elements |-> [els EXCEPT ![a + 1] = elt_b, ![b + 1] = elt_a],
              raise |-> "none"]

\* the 'move' branch: elements[b] = elements[a]; elements[a] = None.
\* _perform_move(None, pos) builds an animation without a target and raises
\* nothing.
apply_move_keeps_source(a, b, els, temps) ==
    [elements |-> [els EXCEPT ![b + 1] = els[a + 1]],
     temp_elements |-> temps, raise |-> "none"]

apply_move(a, b, els, temps) ==
    [elements |-> [[els EXCEPT ![b + 1] = els[a + 1]] EXCEPT ![a + 1] = None],
     temp_elements |-> temps, raise |-> "none"]

\* the 'move_from_temp' branch: temp_elements[a] raises KeyError for a token
\* that is no key
apply_move_from_temp_default(a, b, els, temps) ==
    IF a \notin DOMAIN temps
    THEN [elements |-> [els EXCEPT ![b + 1] = None], temp_elements |-> temps,
          raise |-> "none"]
    ELSE LET pos == temps[a][1]
             temp_elt == temps[a][2]
         IN  [elements |-> [els EXCEPT ![b + 1] = temp_elt],
              temp_elements |-> [temps EXCEPT ![a] = <<pos, None>>],
              raise |-> "none"]

apply_move_from_temp_pops(a, b, els, temps) ==
    IF a \notin DOMAIN temps
    THEN [elements |-> els, temp_elements |-> temps, raise |-> "KeyError"]
    ELSE [elements |-> [els EXCEPT ![b + 1] = temps[a][2]],
          temp_elements |-> [u \in DOMAIN temps \ {a} |-> temps[u]],
          raise |-> "none"]

apply_move_from_temp(a, b, els, temps) ==
    IF a \notin DOMAIN temps
    THEN [elements |-> els, temp_elements |-> temps, raise |-> "KeyError"]
    ELSE LET pos == temps[a][1]
             temp_elt == temps[a][2]
         IN  [elements |-> [els EXCEPT ![b + 1] = temp_elt],
              temp_elements |-> [temps EXCEPT ![a] = <<pos, None>>],
              raise |-> "none"]

\* the 'move_to_temp' branch
apply_move_to_temp_copies(a, b, els, temps) ==
    LET pos == IF b \in DOMAIN temps
               THEN temps[b][1]
               ELSE QPointF(20 + 20 * Cardinality(DOMAIN temps), 60)
    IN  [elements |-> els,
         temp_elements |-> (b :> <<pos, els[a + 1]>>) @@ temps,
         raise |-> "none"]

apply_move_to_temp_fresh_pos(a, b, els, temps) ==
    LET pos == QPointF(20 + 20 * Cardinality(DOMAIN temps), 60)
    IN  [elements |-> [els EXCEPT ![a + 1] = None],
         temp_elements |-> (b :> <<pos, els[a + 1]>>) @@ temps,
         raise |-> "none"]

apply_move_to_temp(a, b, els, temps) ==
    LET pos == IF b \in DOMAIN temps
               THEN temps[b][1]
               ELSE QPointF(20 + 20 * Cardinality(DOMAIN temps), 60)
    IN  [elements |-> [els EXCEPT ![a + 1] = None],
         temp_elements |-> (b :> <<pos, els[a + 1]>>) @@ temps,
         raise |-> "none"]

Apply_unknown_moves(rec, els, temps) ==
    LET op == rec[1]
        a == rec[2]
        b == rec[3]
    IN  IF op = "swap"
        THEN LET r == perform_swap(a, b, els)
             IN  [elements |-> r.elements, temp_elements |-> temps, raise |-> r.raise]
        ELSE IF op = "move_from_temp"
        THEN apply_move_from_temp(a, b, els, temps)
        ELSE IF op = "move_to_temp"
        THEN apply_move_to_temp(a, b, els, temps)
        ELSE apply_move(a, b, els, temps)

\* the branches of _check_for_messages on (op, a, b).  The literals compared
\* with `is` are interned, so `is` decides as == does.
Apply(rec, els, temps) ==
    LET op == rec[1]
        a == rec[2]
        b == rec[3]
    IN  IF op = "swap"
        THEN LET r == perform_swap(a, b, els)
             IN  [elements |-> r.elements, temp_elements |-> temps, raise |-> r.raise]
        ELSE IF op = "move"
        THEN apply_move(a, b, els, temps)
        ELSE IF op = "move_from_temp"
        THEN apply_move_from_temp(a, b, els, temps)
        ELSE IF op = "move_to_temp"
        THEN apply_move_to_temp(a, b, els, temps)
        ELSE [elements |-> els, temp_elements |-> temps, raise |-> "none"]

\* Queue.get() on a queue that is not empty
Get_lifo(q) == [item |-> q[Len(q)], rest |-> SubSeq(q, 1, Len(q) - 1)]

Get_clear(q) == [item |-> Head(q), rest |-> <<>>]

Get(q) == [item |-> Head(q), rest |-> Tail(q)]

\* _check_for_messages from the unpacking of (op, a, b) on
Dispatch(rec) ==
    LET r == Apply(rec, elements, temp_elements)
    IN  /\ elements' = r.elements
        /\ temp_elements' = r.temp_elements
        /\ IF r.raise = "none"
           THEN UNCHANGED <<gui_error, gui_state>>
           ELSE /\ gui_error' = r.raise
                /\ gui_state' \in {"polling", "aborted"}

\* _check_for_messages, one timeout of cmd_poll_timer.  An exception that
\* leaves the slot is printed and the thread polls on, or (PyQt5 from 5.5)
\* ends the process through qFatal().
check_for_messages ==
    /\ gui_state = "polling"
    /\ IF messages = <<>>
       THEN UNCHANGED <<messages, applied, elements, temp_elements, gui_error,
                        gui_state>>
       ELSE LET g == Get(messages)
            IN  /\ messages' = g.rest
                /\ applied' = Append(applied, g.item)
                /\ Dispatch(g.item)
    /\ UNCHANGED <<enabled, phase, in_swap, swap_moved, fbp, finish_bp, stopped,
                    base_addr, size, values, pushed, probe, load>>

\* ------------------------------------------------------------ system
\* the inputs of one show_move: a vector and two operands
ProbeInput(base, sz, stride, a, b) ==
    [base |-> base, size |-> sz, stride |-> stride, a |-> a, b |-> b,
     done |-> FALSE, ca |-> <<>>, cb |-> <<>>, out |-> <<>>]

\* the inputs with what show_move makes of them
ProbeOutput(in) ==
    [in EXCEPT !.done = TRUE,
               !.ca = Classify(in.a, in.base, in.size, in.stride),
               !.cb = Classify(in.b, in.base, in.size, in.stride),
               !.out = show_move(in.a, in.b, in.base, in.size, in.stride)]

\* the module has been loaded; gui is not bound yet
Init ==
    /\ enabled = InitialSites
    /\ phase = "setup"
    /\ in_swap = FALSE
    /\ swap_moved = FALSE
    /\ fbp = FALSE
    /\ finish_bp = FALSE
    /\ stopped = "none"
    /\ gui_state = "none"
    /\ base_addr = 0
    /\ size = 0
    /\ values = <<>>
    /\ messages = <<>>
    /\ elements = <<>>
    /\ temp_elements = <<>>
    /\ gui_error = "none"
    /\ pushed = <<>>
    /\ applied = <<>>
    /\ probe = ProbeInput(0, 0, 1, 0, 0)
    /\ load = "loaded"

Next ==
    \/ \E a, b \in ElemAddrs : CallSwap(a, b)
    \/ \E site \in {"move", "move_assign"} : \E d, s \in Addrs : CallMove(site, d, s)
    \/ ReturnSwap
    \/ CallSort
    \/ ReturnSort
    \/ UserContinue
    \/ run
    \/ check_for_messages

Spec == Init /\ [][Next]_vars

\* show_move on operands and vectors drawn from small ranges
InitClassify ==
    /\ enabled = InitialSites
    /\ phase = "setup"
    /\ in_swap = FALSE
    /\ swap_moved = FALSE
    /\ fbp = FALSE
    /\ finish_bp = FALSE
    /\ stopped = "none"
    /\ gui_state = "none"
    /\ base_addr = 0
    /\ size = 0
    /\ values = <<>>
    /\ messages = <<>>
    /\ elements = <<>>
    /\ temp_elements = <<>>
    /\ gui_error = "none"
    /\ pushed = <<>>
    /\ applied = <<>>
    /\ \E base \in 0 .. MaxProbeBase, sz \in 0 .. MaxProbeSize,
          stride \in 1 .. MaxProbeStride, a, b \in 0 .. MaxProbeAddr :
            probe = ProbeInput(base, sz, stride, a, b)
    /\ load = "loaded"

ProbeShowMove ==
    /\ ~probe.done
    /\ probe' = ProbeOutput(probe)
    /\ UNCHANGED <<enabled, phase, in_swap, swap_moved, fbp, finish_bp, stopped,
                   gui_state, base_addr, size, values, messages, elements,
                   temp_elements, gui_error, pushed, applied, load>>

SpecClassify == InitClassify /\ [][ProbeShowMove]_vars

\* ------------------------------------------------------------ replay
\* A GuiThread over a vector of ModelN elements, after sort_bp.commands and
\* run(); each hit's record is applied before the next hit.
InitModel ==
    /\ enabled = SortEnables(InitialSites)
    /\ phase = "in_sort"
    /\ in_swap = FALSE
    /\ swap_moved = FALSE
    /\ fbp = FALSE
    /\ finish_bp = TRUE
    /\ stopped = "none"
    /\ gui_state = "polling"
    /\ base_addr = Base
    /\ size = ModelN
    /\ values = [i \in 1 .. ModelN |-> Deref(Base + (i - 1) * Stride)]
    /\ messages = <<>>
    /\ elements = [i \in 1 .. ModelN |-> Element(i - 1, Deref(Base + (i - 1) * Stride))]
    /\ temp_elements = <<>>
    /\ gui_error = "none"
    /\ pushed = <<>>
    /\ applied = <<>>
    /\ probe = ProbeInput(0, 0, 1, 0, 0)
    /\ load = "loaded"

\* a swap hit on (a, b), and the poll that applies its record
ReplaySwap(a, b) ==
    /\ gui_state = "polling"
    /\ Dispatch(show_swap(a, b, base_addr, Stride))
    /\ UNCHANGED <<enabled, phase, in_swap, swap_moved, fbp, finish_bp, stopped,
                   base_addr, size, values, messages, pushed, applied, probe, load>>

\* a move hit with this = d and other at s that sends a record, and the poll
\* that applies it
ReplayMove(d, s) ==
    /\ gui_state = "polling"
    /\ LET r == show_move(d, s, base_addr, size, Stride)
       IN  r.raise = "none" /\ Dispatch(r.msg)
    /\ UNCHANGED <<enabled, phase, in_swap, swap_moved, fbp, finish_bp, stopped,
                   base_addr, size, values, messages, pushed, applied, probe, load>>

NextModel ==
    \/ \E a, b \in ModelElemAddrs : ReplaySwap(a, b)
    \/ \E d, s \in ModelAddrs : ReplayMove(d, s)

SpecModel == InitModel /\ [][NextModel]_vars

\* ------------------------------------------------------------ feed
\* the kinds _check_for_messages has a branch for
Kinds == {"swap", "move", "move_from_temp", "move_to_temp"}

\* (tp, src, dst) tuples for a vector of N elements: those of the four kinds
\* and one of a kind that has no branch
FeedRecords ==
    {<<op, a, b>> : op \in {"swap", "move", "resize"}, a \in 0 .. N - 1, b \in 0 .. N - 1}
        \cup {<<"move_from_temp", str(t), i>> : t \in TempAddrs, i \in 0 .. N - 1}
        \cup {<<"move_to_temp", i, str(t)>> : t \in TempAddrs, i \in 0 .. N - 1}

\* a GuiThread over the vector of N elements, after run() has started the
\* poll timer
InitFeed ==
    /\ enabled = SortEnables(InitialSites)
    /\ phase = "in_sort"
    /\ in_swap = FALSE
    /\ swap_moved = FALSE
    /\ fbp = FALSE
    /\ finish_bp = TRUE
    /\ stopped = "none"
    /\ gui_state = "polling"
    /\ base_addr = Base
    /\ size = N
    /\ values = [i \in 1 .. N |-> Deref(Base + (i - 1) * Stride)]
    /\ messages = <<>>
    /\ elements = [i \in 1 .. N |-> Element(i - 1, Deref(Base + (i - 1) * Stride))]
    /\ temp_elements = <<>>
    /\ gui_error = "none"
    /\ pushed = <<>>
    /\ applied = <<>>
    /\ probe = ProbeInput(0, 0, 1, 0, 0)
    /\ load = "loaded"

\* messages.put(rec), whatever rec is
put(rec) ==
    /\ send_message(rec)
    /\ UNCHANGED <<enabled, phase, in_swap, swap_moved, fbp, finish_bp, stopped,
                   gui_state, base_addr, size, values, elements, temp_elements,
                   gui_error, applied, probe, load>>

NextFeed ==
    \/ \E rec \in FeedRecords : put(rec)
    \/ check_for_messages

SpecFeed == InitFeed /\ [][NextFeed]_vars

\* ------------------------------------------------------------ import
\* StrictVersion: (major, minor, patch); a missing patch is 0
StrictVersion(major, minor, patch) == <<major, minor, patch>>

Versions ==
    {StrictVersion(ma, mi, pa) : ma \in 7 .. MaxMajor, mi \in 0 .. MaxMinor,
                                 pa \in 0 .. MaxPatch}

\* StrictVersion._cmp on two versions without a prerelease tag
VersionLess(v, w) ==
    \/ v[1] < w[1]
    \/ v[1] = w[1] /\ v[2] < w[2]
    \/ v[1] = w[1] /\ v[2] = w[2] /\ v[3] < w[3]

\* StrictVersion('8.2')
RequiredVersion == StrictVersion(8, 2, 0)

\* gdb has not imported the module: no gdb.Breakpoint of it exists
InitLoad ==
    /\ enabled = <<>>
    /\ phase = "setup"
    /\ in_swap = FALSE
    /\ swap_moved = FALSE
    /\ fbp = FALSE
    /\ finish_bp = FALSE
    /\ stopped = "none"
    /\ gui_state = "none"
    /\ base_addr = 0
    /\ size = 0
    /\ values = <<>>
    /\ messages = <<>>
    /\ elements = <<>>
    /\ temp_elements = <<>>
    /\ gui_error = "none"
    /\ pushed = <<>>
    /\ applied = <<>>
    /\ probe = ProbeInput(0, 0, 1, 0, 0)
    /\ load = "unloaded"

\* the module body runs under a gdb of version v: the version check, then the
\* four gdb.Breakpoint(...) with their enabled flags
load_module_late_check(v) ==
    /\ load = "unloaded"
    /\ enabled' = InitialSites
    /\ load' = IF VersionLess(v, RequiredVersion) THEN "NotImplementedError" ELSE "loaded"
    /\ UNCHANGED <<phase, in_swap, swap_moved, fbp, finish_bp, stopped,
                   gui_state, base_addr, size, values, messages, elements,
                   temp_elements, gui_error, pushed, applied, probe>>

load_module(v) ==
    /\ load = "unloaded"
    /\ IF VersionLess(v, RequiredVersion)
       THEN load' = "NotImplementedError" /\ enabled' = enabled
       ELSE load' = "loaded" /\ enabled' = InitialSites
    /\ UNCHANGED <<phase, in_swap, swap_moved, fbp, finish_bp, stopped,
                   gui_state, base_addr, size, values, messages, elements,
                   temp_elements, gui_error, pushed, applied, probe>>

\* the import, and the session that follows an import that succeeded
NextLoad ==
    \/ \E v \in Versions : load_module(v)
    \/ load = "loaded" /\ Next

SpecLoad == InitLoad /\ [][NextLoad]_vars


\* ------------------------------------------------------------ properties
IsPrefix(p, q) == Len(p) <= Len(q) /\ SubSeq(q, 1, Len(p)) = p

MoveSitesOff(en) == ~en["move"] /\ ~en["move_assign"]

\* C1: a swap hit sends exactly one swap record, the two move sites are
\* disabled while the swap call runs, and nothing is sent between the entry
\* of that swap call and its return.
C1_Suppression ==
    [][/\ (~in_swap /\ in_swap' /\ enabled["swap"])
            => /\ \E a, b \in 0 .. size - 1 : pushed' = Append(pushed, <<"swap", a, b>>)
               /\ MoveSitesOff(enabled')
       /\ (in_swap /\ fbp /\ in_swap')
            => (pushed' = pushed /\ MoveSitesOff(enabled'))]_vars

C1_Witness ==
    /\ phase = "in_sort"
    /\ in_swap /\ fbp /\ swap_moved
    /\ Len(pushed) = 1
    /\ pushed[1][1] = "swap"

\* C2: the records taken from the queue, followed by those still in it, are
\* the records pushed, in the order pushed; so the applied records are a
\* prefix of the pushed ones.
C2_Order ==
    /\ IsPrefix(applied, pushed)
    /\ applied \o messages = pushed

C2_Witness ==
    /\ Len(applied) = 1
    /\ Len(messages) = 1
    /\ applied[1] # messages[1]

\* the number of non-empty slots plus registry entries that hold an element
Held(els, temps) ==
    Cardinality({i \in 1 .. Len(els) : els[i] # None})
        + Cardinality({t \in DOMAIN temps : temps[t][2] # None})

\* the tokens of the locations outside the replayed vector
Tokens == {str(p) : p \in ModelTempAddrs}

Overwritten(dst_holds) == IF dst_holds THEN 1 ELSE 0

\* C3, as claimed: the non-empty slots and the registry entries that hold an
\* element are size many, after every record.
C3_Conservation ==
    Held(elements, temp_elements) = size

\* C3, amended: a record leaves that number as it is, unless its destination
\* (the slot of move and move_from_temp, the registry entry of move_to_temp)
\* holds an element before it: then the element is overwritten and the number
\* drops by one.  So the number never exceeds size.
C3_ConservedUnlessOverwritten ==
    [][/\ Held(elements', temp_elements') <= size
       /\ \A a, b \in 0 .. size - 1 :
            /\ Dispatch(<<"swap", a, b>>)
                 => Held(elements', temp_elements') = Held(elements, temp_elements)
            /\ Dispatch(<<"move", a, b>>)
                 => Held(elements', temp_elements')
                      = Held(elements, temp_elements)
                          - Overwritten(elements[b + 1] # None)
       /\ \A t \in Tokens : \A i \in 0 .. size - 1 :
            /\ Dispatch(<<"move_from_temp", t, i>>)
                 => Held(elements', temp_elements')
                      = Held(elements, temp_elements)
                          - Overwritten(t \in DOMAIN temp_elements
                                          /\ elements[i + 1] # None)
            /\ Dispatch(<<"move_to_temp", i, t>>)
                 => Held(elements', temp_elements')
                      = Held(elements, temp_elements)
                          - Overwritten(t \in DOMAIN temp_elements
                                          /\ temp_elements[t][2] # None)]_vars

C3_Witness ==
    /\ Held(elements, temp_elements) = size
    /\ \E t \in DOMAIN temp_elements : temp_elements[t][2] # None
    /\ \E t \in DOMAIN temp_elements : temp_elements[t][2] = None

\* C4, as claimed: a poll cycle applies every record queued when it starts
\* (stated for the cycles in which no record raises).
C4_PollDrains ==
    [][(check_for_messages /\ gui_error' = gui_error)
          => (messages' = <<>> /\ applied' = applied \o messages)]_vars

\* C4, amended: a poll cycle takes at most one record, the oldest; the others
\* stay queued in their order, and an empty queue changes nothing.
C4_OnePerPoll ==
    [][check_for_messages
          => IF messages = <<>>
             THEN UNCHANGED <<messages, applied, elements, temp_elements>>
             ELSE /\ applied' = Append(applied, Head(messages))
                  /\ messages' = Tail(messages)]_vars

C4_Witness ==
    /\ gui_state = "polling"
    /\ Len(pushed) = 2
    /\ Len(applied) = 1
    /\ messages = <<pushed[2]>>

\* C5: until std::sort is entered only the sort site is enabled, and no
\* record is sent whatever the traced program does.
C5_Armed ==
    phase = "setup"
        => /\ \A s \in Sites : enabled[s] <=> (s = "sort")
           /\ pushed = <<>>
           /\ messages = <<>>
           /\ stopped = "none"

C5_Witness ==
    /\ phase = "setup"
    /\ in_swap /\ swap_moved

\* C6, as claimed: once a GuiThread exists, a later entry of std::sort leaves
\* the snapshot, the queue and the thread as they are.
C6_EntryOnce ==
    [][(gui_state # "none" /\ phase # "in_sort" /\ phase' = "in_sort")
          => UNCHANGED <<gui_state, base_addr, size, values, messages, elements,
                         temp_elements, pushed, applied>>]_vars

\* C7, as claimed: after std::sort has returned, all four sites are disabled.
C7_Terminal ==
    phase = "after_sort" => \A s \in Sites : ~enabled[s]

\* C10: a move hit with both operands outside the vector raises, sends
\* nothing and leaves elements and temp_elements alone.
C10_TempToTemp ==
    [][\A site \in {"move", "move_assign"} : \A d, s \in TempAddrs :
          (CallMove(site, d, s) /\ enabled[site])
              => /\ stopped' = "RuntimeError"
                 /\ pushed' = pushed
                 /\ messages' = messages
                 /\ elements' = elements
                 /\ temp_elements' = temp_elements]_vars

C10_Witness ==
    /\ stopped = "RuntimeError"
    /\ phase = "in_sort"


\* C8: an operand is an offset in the vector exactly when it lies in
\* [base, base + count * stride), the offset being (address - base) / stride;
\* otherwise it is a token, and two tokens are equal exactly when the
\* addresses are.
C8_Classifier ==
    probe.done =>
        /\ \A x \in {<<probe.a, probe.ca>>, <<probe.b, probe.cb>>} :
            LET inside == /\ probe.base <= x[1]
                          /\ x[1] < probe.base + probe.size * probe.stride
            IN  /\ x[2][1] = (IF inside THEN "slot" ELSE "token")
                /\ inside => x[2][2] = (x[1] - probe.base) \div probe.stride
        /\ (probe.ca[1] = "token" /\ probe.cb[1] = "token")
            => ((probe.ca[2] = probe.cb[2]) <=> (probe.a = probe.b))

C8_Witness ==
    /\ probe.done
    /\ probe.ca[1] = "slot" /\ probe.ca[2] = 1 /\ probe.stride = 2
    /\ probe.cb[1] = "token" /\ probe.b = probe.base + probe.size * probe.stride

\* the container and its slots, as the claims state them
InContainer(x) == Base <= x /\ x < Base + ModelN * Stride

SlotOf(x) == (x - Base) \div Stride

\* C9: a move hit with destination d and source s sends move(slot(s),
\* slot(d)), move_from_temp(token(s), slot(d)) or move_to_temp(slot(s),
\* token(d)), and the back end moves the element from the place of s to the
\* place of d.
C9_MoveInterpretation ==
    [][\A d, s \in ModelAddrs :
          ReplayMove(d, s)
              => LET rec == show_move(d, s, base_addr, size, Stride).msg
                     sd == SlotOf(d) + 1
                     ss == SlotOf(s) + 1
                 IN  /\ (InContainer(d) /\ InContainer(s))
                          => /\ rec = <<"move", SlotOf(s), SlotOf(d)>>
                             /\ d # s => /\ elements'[sd] = elements[ss]
                                         /\ elements'[ss] = None
                     /\ (InContainer(d) /\ ~InContainer(s))
                          => /\ rec = <<"move_from_temp", str(s), SlotOf(d)>>
                             /\ str(s) \in DOMAIN temp_elements
                                  => /\ elements'[sd] = temp_elements[str(s)][2]
                                     /\ temp_elements'[str(s)][2] = None
                     /\ (~InContainer(d) /\ InContainer(s))
                          => /\ rec = <<"move_to_temp", SlotOf(s), str(d)>>
                             /\ temp_elements'[str(d)][2] = elements[ss]
                             /\ elements'[ss] = None]_vars

C9_Witness ==
    /\ elements[1] = Element(1, Deref(Base + Stride))
    /\ elements[2] = None
    /\ \E t \in DOMAIN temp_elements : temp_elements[t][2] = Element(0, Deref(Base))

\* C11, as claimed: a move hit with both operands outside the vector (the
\* error of show_move) leaves all four sites disabled and the traced program
\* running.
C11_ErrorPropagation ==
    [][\A site \in {"move", "move_assign"} : \A d, s \in TempAddrs :
          (CallMove(site, d, s) /\ enabled[site] /\ gui_state # "none")
              => /\ stopped' = "none"
                 /\ \A x \in Sites : ~enabled'[x]]_vars

\* C12: a move_from_temp record whose token is no key of temp_elements raises
\* KeyError, and elements and temp_elements stay as they are.
C12_MissingTemporary ==
    [][\A d \in ModelElemAddrs : \A s \in ModelTempAddrs :
          (ReplayMove(d, s) /\ str(s) \notin DOMAIN temp_elements)
              => /\ gui_error' = "KeyError"
                 /\ elements' = elements
                 /\ temp_elements' = temp_elements]_vars

C12_Witness ==
    /\ gui_error = "KeyError"
    /\ \E t \in Tokens : t \notin DOMAIN temp_elements
    /\ \E t \in Tokens : t \in DOMAIN temp_elements

\* C13: a poll that takes a record of a kind without a branch removes it from
\* the queue and changes neither elements nor temp_elements; the thread polls
\* on, so the records behind it are taken by the next polls.
C13_UnknownIgnored ==
    [][(check_for_messages /\ messages # <<>> /\ Head(messages)[1] \notin Kinds)
          => /\ messages' = Tail(messages)
             /\ applied' = Append(applied, Head(messages))
             /\ elements' = elements
             /\ temp_elements' = temp_elements
             /\ gui_error' = gui_error
             /\ gui_state' = "polling"]_vars

C13_Witness ==
    /\ Len(applied) = 2
    /\ applied[1][1] \notin Kinds
    /\ applied[2][1] = "move_to_temp"
    /\ elements[1] = None
    /\ gui_error = "none"

\* C14: under a gdb older than 8.2 the import ends with NotImplementedError
\* and creates no breakpoint; and whenever the import has failed, no
\* breakpoint exists, enabled or disabled.
C14_CapabilityGate ==
    /\ [](load = "NotImplementedError" => DOMAIN enabled = {})
    /\ [][\A v \in Versions :
             (load_module(v) /\ (v[1] < 8 \/ (v[1] = 8 /\ v[2] < 2)))
                 => (load' = "NotImplementedError" /\ DOMAIN enabled' = {})]_vars

C14_Witness ==
    /\ load = "NotImplementedError"
    /\ DOMAIN enabled = {}

\* C15: between the entry of std::sort and its return, move_bp and
\* move_assign_bp are both disabled while a swap call runs and both enabled
\* otherwise; the return of a swap call leaves both enabled; and a move hit
\* outside a swap call with an operand in the vector sends exactly one record,
\* of a move kind.
C15_MovesOutsideSwap ==
    /\ [](phase = "in_sort"
            => /\ in_swap => MoveSitesOff(enabled)
               /\ ~in_swap => (enabled["move"] /\ enabled["move_assign"]))
    /\ [][(phase = "in_sort" /\ in_swap /\ ~in_swap')
             => (enabled'["move"] /\ enabled'["move_assign"])]_vars
    /\ [][\A site \in {"move", "move_assign"} : \A d, s \in Addrs :
             (/\ CallMove(site, d, s)
              /\ phase = "in_sort" /\ ~in_swap
              /\ (d \in ElemAddrs \/ s \in ElemAddrs))
                 => /\ Len(pushed') = Len(pushed) + 1
                    /\ SubSeq(pushed', 1, Len(pushed)) = pushed
                    /\ messages' = Append(messages, pushed'[Len(pushed')])
                    /\ pushed'[Len(pushed')][1]
                         \in {"move", "move_from_temp", "move_to_temp"}]_vars

C15_Witness ==
    /\ phase = "in_sort"
    /\ ~in_swap
    /\ Len(pushed) = 2
    /\ pushed[1][1] = "swap"
    /\ pushed[2][1] = "move_to_temp"

\* C16: no element is held in two places, a place being a position of
\* elements or an entry of temp_elements.
C16_ExclusiveOwnership ==
    /\ \A i, j \in 1 .. Len(elements) :
          (i # j /\ elements[i] # None) => elements[i] # elements[j]
    /\ \A t, u \in DOMAIN temp_elements :
          (t # u /\ temp_elements[t][2] # None)
              => temp_elements[t][2] # temp_elements[u][2]
    /\ \A i \in 1 .. Len(elements) : \A t \in DOMAIN temp_elements :
          elements[i] # None => elements[i] # temp_elements[t][2]

C16_Witness ==
    /\ Held(elements, temp_elements) = size - 1
    /\ \E t \in DOMAIN temp_elements : temp_elements[t][2] # None
    /\ \E t \in DOMAIN temp_elements : temp_elements[t][2] = None
    /\ \E i \in 1 .. Len(elements) : elements[i] # None /\ elements[i][1] # i - 1

\* C17: from any state reached, for a position i that holds an element and
\* any token t, move_to_temp(i, t) followed by move_from_temp(t, i) raises
\* nothing and gives back the elements of before; the entry of t then holds
\* no element and has the position move_to_temp gave or found for it.
C17_RoundTrip ==
    \A i \in 0 .. size - 1 : \A t \in Tokens :
        elements[i + 1] # None
            => LET r1 == Apply(<<"move_to_temp", i, t>>, elements, temp_elements)
                   r2 == Apply(<<"move_from_temp", t, i>>, r1.elements, r1.temp_elements)
               IN  /\ r1.raise = "none" /\ r2.raise = "none"
                   /\ r1.elements[i + 1] = None
                   /\ r1.temp_elements[t][2] = elements[i + 1]
                   /\ r2.elements = elements
                   /\ t \in DOMAIN r2.temp_elements
                   /\ r2.temp_elements[t][2] = None
                   /\ r2.temp_elements[t][1] = r1.temp_elements[t][1]
                   /\ t \in DOMAIN temp_elements
                        => r2.temp_elements[t][1] = temp_elements[t][1]
                   /\ \A u \in DOMAIN temp_elements \ {t} :
                        r2.temp_elements[u] = temp_elements[u]

C17_Witness ==
    /\ elements = [i \in 1 .. size |-> Element(i - 1, values[i])]
    /\ DOMAIN temp_elements = Tokens
    /\ \A t \in Tokens : temp_elements[t][2] = None

\* the x coordinates of the positions in a registry
TempXs(temps) == {temps[t][1][1] : t \in DOMAIN temps}

\* C18: an entry of temp_elements is never removed and keeps its position;
\* a token that gets its entry is placed 20 to the right of the rightmost
\* position given so far (at 20 when there is none), on the line y = 60; so
\* two tokens never have the same position.
C18_TempPositions ==
    /\ [](\A t, u \in DOMAIN temp_elements :
            t # u => temp_elements[t][1] # temp_elements[u][1])
    /\ [][/\ DOMAIN temp_elements \subseteq DOMAIN temp_elements'
          /\ \A t \in DOMAIN temp_elements :
                temp_elements'[t][1] = temp_elements[t][1]
          /\ \A t \in DOMAIN temp_elements' \ DOMAIN temp_elements :
                /\ temp_elements'[t][1][2] = 60
                /\ IF DOMAIN temp_elements = {}
                   THEN temp_elements'[t][1][1] = 20
                   ELSE \E x \in TempXs(temp_elements) :
                          /\ \A y \in TempXs(temp_elements) : y <= x
                          /\ temp_elements'[t][1][1] = x + 20]_vars

C18_Witness ==
    /\ DOMAIN temp_elements = Tokens
    /\ \A t \in Tokens : temp_elements[t][2] # None
    /\ TempXs(temp_elements) = {20, 40}

\* C19: from any state reached, for two different positions that both hold
\* an element, the record swap(a, b) applied twice raises nothing, exchanges
\* the two elements and exchanges them back, so elements is what it was; and
\* temp_elements is untouched.
C19_SwapInvolution ==
    \A a, b \in 0 .. size - 1 :
        (a # b /\ elements[a + 1] # None /\ elements[b + 1] # None)
            => LET r1 == Apply(<<"swap", a, b>>, elements, temp_elements)
                   r2 == Apply(<<"swap", a, b>>, r1.elements, r1.temp_elements)
               IN  /\ r1.raise = "none" /\ r2.raise = "none"
                   /\ r1.elements[a + 1] = elements[b + 1]
                   /\ r1.elements[b + 1] = elements[a + 1]
                   /\ r2.elements = elements
                   /\ r1.temp_elements = temp_elements
                   /\ r2.temp_elements = temp_elements

C19_Witness ==
    /\ elements[1] = Element(2, Deref(Base + 2 * Stride))
    /\ elements[2] = Element(0, Deref(Base))
    /\ elements[3] = None
    /\ \E t \in DOMAIN temp_elements : temp_elements[t][2] = Element(1, Deref(Base + Stride))

\* C20: between gui.start() and the end of the set-up in run() records can
\* be put on the queue; none is taken then, and elements and temp_elements
\* are not built yet.  The set-up leaves the queue alone, and the first
\* record taken is taken by a poll of the thread that has built elements,
\* out of a queue that still holds every record put so far, in order.
C20_StartUp ==
    /\ [](gui_state = "started"
            => /\ applied = <<>>
               /\ messages = pushed
               /\ elements = <<>> /\ temp_elements = <<>>)
    /\ [][(gui_state = "started" /\ gui_state' = "polling")
             => (messages' = messages /\ Len(elements') = size)]_vars
    /\ [][(applied = <<>> /\ applied' # <<>>)
             => /\ gui_state = "polling"
                /\ Len(elements) = size
                /\ messages = pushed
                /\ applied' = <<Head(pushed)>>
                /\ messages' = Tail(pushed)]_vars

C20_Witness ==
    /\ gui_state = "started"
    /\ Len(messages) = 2
    /\ messages[1][1] = "swap"
    /\ messages[2][1] = "move_from_temp"

====
